---- MODULE Spec2Model ----
(***************************************************************************)
(* Model of reflexdisparity.py: the affix stripper (rm_affixes), the       *)
(* grouping utility (groupby), the CognateSet class, the dataset loader    *)
(* (load_reflex_data) and the report driver (run).                         *)
(*                                                                         *)
(* A Python string is a sequence of one-character strings; a csv row is a  *)
(* record with the fields ProtoForm, Reflex and GlottoCode.  A float       *)
(* quotient is the rational it denotes, kept in lowest terms.              *)
(***************************************************************************)
EXTENDS Integers, Sequences, FiniteSets, TLC

VARIABLES pc, err, lexeme, return_all, root, passes,
          seq, groups,
          rows, protolangs, affixes, cognatesets,
          sel, mat, mean, sets, out

vars == <<pc, err, lexeme, return_all, root, passes, seq, groups,
          rows, protolangs, affixes, cognatesets, sel, mat, mean, sets, out>>

stripVars == <<lexeme, return_all, root, passes>>
groupVars == <<seq, groups>>
loadVars  == <<rows, protolangs, affixes, cognatesets>>
setVars   == <<sel, mat, mean>>
runVars   == <<sets, out>>

\* Bounds of the model
MaxLen == 5
MaxItems == 4
MaxReflexes == 3
MaxRows == 3

None == "None"
NoError == "none"
\* the value of a call that returned nothing (no string: a string is a
\* sequence of single characters)
NoRoot == <<"None">>
\* the mean before any quotient was returned (a quotient has den >= 1)
NoMean == [num |-> 0, den |-> 0]

(***************************************************************************)
(* Strings                                                                 *)
(***************************************************************************)
Alphabet == {"-", "<", ">", " ", "\n", "a"}

Whitespace == {" ", "\t", "\n", "\r", "\f"}

IsSpace(c) == c \in Whitespace

SeqsUpTo(S, n) == UNION {[1..k -> S] : k \in 0..n}

Max(S) == CHOOSE x \in S : \A y \in S : y <= x

RECURSIVE Concat(_)
Concat(ss) == IF ss = <<>> THEN <<>> ELSE Head(ss) \o Concat(Tail(ss))

RECURSIVE SumSeq(_)
SumSeq(ns) == IF ns = <<>> THEN 0 ELSE Head(ns) + SumSeq(Tail(ns))

(***************************************************************************)
(* re.sub / re.findall with the pattern  ^\S+-|-\S+$|<\S+>                 *)
(***************************************************************************)
\* last index of the run of non-whitespace characters that starts at p
\* (p - 1 when s[p] is whitespace or p is past the end)
RECURSIVE RunEnd(_, _)
RunEnd(s, p) ==
    IF p > Len(s) \/ IsSpace(s[p]) THEN p - 1 ELSE RunEnd(s, p + 1)

\* `$`: the end of the string, or just before a newline that ends the string
AtDollar(s, p) ==
    \/ p = Len(s) + 1
    \/ p = Len(s) /\ s[p] = "\n"

\* Each Match* gives the index of the last character of the match that
\* starts at p, or 0 when the alternative does not match at p.

\* ^\S+- : greedy, so the run is cut at its last hyphen
MatchPrefix(s, p) ==
    LET ks == {k \in (p + 1)..RunEnd(s, p) : s[k] = "-"}
    IN  IF p = 1 /\ ks # {} THEN Max(ks) ELSE 0

\* -\S+$
MatchSuffix(s, p) ==
    LET qs == {q \in (p + 1)..RunEnd(s, p + 1) : AtDollar(s, q + 1)}
    IN  IF p <= Len(s) /\ s[p] = "-" /\ qs # {} THEN Max(qs) ELSE 0

\* <\S+>
MatchInfix(s, p) ==
    LET ks == {k \in (p + 2)..RunEnd(s, p + 1) : s[k] = ">"}
    IN  IF p <= Len(s) /\ s[p] = "<" /\ ks # {} THEN Max(ks) ELSE 0

\* the alternatives are tried in the order written; the first that matches wins
MatchAt(s, p) ==
    IF MatchPrefix(s, p) > 0 THEN MatchPrefix(s, p)
    ELSE IF MatchSuffix(s, p) > 0 THEN MatchSuffix(s, p)
    ELSE MatchInfix(s, p)

\* sub(match, "", s): the leftmost non-overlapping matches are deleted
RECURSIVE SubFrom(_, _)
SubFrom(s, p) ==
    IF p > Len(s) THEN <<>>
    ELSE IF MatchAt(s, p) > 0 THEN SubFrom(s, MatchAt(s, p) + 1)
    ELSE <<s[p]>> \o SubFrom(s, p + 1)

\* findall(match, s): the leftmost non-overlapping matches, in order
RECURSIVE FindAllFrom(_, _)
FindAllFrom(s, p) ==
    IF p > Len(s) THEN <<>>
    ELSE IF MatchAt(s, p) > 0
         THEN <<SubSeq(s, p, MatchAt(s, p))>> \o FindAllFrom(s, MatchAt(s, p) + 1)
    ELSE FindAllFrom(s, p + 1)

\* rm_affixes(lexeme, return_all): [err, value]; `return root, matches`
\* names a variable that was never bound (the list is called affixes)
rm_affixes(lex, ra) ==
    LET rt == SubFrom(lex, 1)
        affs == FindAllFrom(lex, 1)
    IN  IF ra THEN [err |-> "NameError", value |-> NoRoot]
        ELSE [err |-> NoError, value |-> rt]

(***************************************************************************)
(* groupby(seq, access_fn)                                                 *)
(***************************************************************************)
\* a dict is the sequence of its entries in insertion order
HasKey(indices, key) == \E e \in DOMAIN indices : indices[e].key = key

\* lines 40-43: indices[key].append(i), or indices[key] = [i]
DictAddFront(indices, key, i) ==
    IF HasKey(indices, key)
    THEN [e \in DOMAIN indices |->
            IF indices[e].key = key
            THEN [key |-> key, idxs |-> <<i>> \o indices[e].idxs]
            ELSE indices[e]]
    ELSE Append(indices, [key |-> key, idxs |-> <<i>>])

DictAdd(indices, key, i) ==
    IF HasKey(indices, key)
    THEN [e \in DOMAIN indices |->
            IF indices[e].key = key
            THEN [key |-> key, idxs |-> Append(indices[e].idxs, i)]
            ELSE indices[e]]
    ELSE Append(indices, [key |-> key, idxs |-> <<i>>])

\* the loop of lines 38-43 from item i on; keys[i] is access_fn(seq[i])
RECURSIVE GroupIndices(_, _, _)
GroupIndices(keys, i, indices) ==
    IF i > Len(keys) THEN indices
    ELSE GroupIndices(keys, i + 1, DictAdd(indices, keys[i], i))

\* access_fn is a function from items to keys
groupby(s, access_fn) ==
    LET keys == [i \in DOMAIN s |-> access_fn[s[i]]]
        indices == GroupIndices(keys, 1, <<>>)
    IN  [g \in DOMAIN indices |->
            [j \in DOMAIN indices[g].idxs |-> s[indices[g].idxs[j]]]]

(***************************************************************************)
(* chunk, Levenshtein.distance and the CognateSet class                    *)
(***************************************************************************)
Min2(a, b) == IF a <= b THEN a ELSE b

\* chunk(seq, size), read to its end: range(0, len(seq), size) raises
\* ValueError when size is 0, else the slices seq[i:i + size]
chunkNoRaise(s, size) ==
    IF size = 0 THEN [err |-> NoError, value |-> <<>>]
    ELSE [err |-> NoError,
          value |-> [r \in 1..((Len(s) + size - 1) \div size) |->
                        SubSeq(s, (r - 1) * size + 1, Min2(r * size, Len(s)))]]

chunk(s, size) ==
    IF size = 0 THEN [err |-> "ValueError", value |-> <<>>]
    ELSE [err |-> NoError,
          value |-> [r \in 1..((Len(s) + size - 1) \div size) |->
                        SubSeq(s, (r - 1) * size + 1, Min2(r * size, Len(s)))]]

\* one row of the edit-distance table: row[i + 1] is the distance between
\* the first i characters of a and the prefix of b that ends with c
RECURSIVE LevRow(_, _, _, _)
LevRow(prev, a, c, acc) ==
    IF Len(acc) = Len(prev) THEN acc
    ELSE LET i == Len(acc)
             cost == IF a[i] = c THEN 0 ELSE 1
             v == Min2(Min2(prev[i + 1] + 1, acc[i] + 1), prev[i] + cost)
         IN  LevRow(prev, a, c, Append(acc, v))

RECURSIVE LevRows(_, _, _, _)
LevRows(prev, a, b, j) ==
    IF j > Len(b) THEN prev[Len(prev)]
    ELSE LevRows(LevRow(prev, a, b[j], <<prev[1] + 1>>), a, b, j + 1)

distanceSubstitutionFree(a, b) ==
    IF Len(a) >= Len(b) THEN Len(a) - Len(b) ELSE Len(b) - Len(a)

\* Levenshtein.distance(a, b)
distance(a, b) == LevRows([i \in 1..(Len(a) + 1) |-> i - 1], a, b, 1)

\* CognateSet.__init__: affixes false means the reflexes are stripped
CognateSetInit(protoform, reflexes, glottocodes, gloss, aff) ==
    [protoform |-> protoform,
     reflexes |-> IF aff THEN reflexes
                  ELSE [i \in DOMAIN reflexes |-> rm_affixes(reflexes[i], FALSE).value],
     glottocodes |-> glottocodes,
     gloss |-> gloss]

n_reflexes(cs) == Len(cs.reflexes)

\* product(self.reflexes, repeat=2): the pairs, the first index slowest
Product2(rs) ==
    LET n == Len(rs)
    IN  [k \in 1..(n * n) |-> <<rs[((k - 1) \div n) + 1], rs[((k - 1) % n) + 1]>>]

\* CognateSet.matrix, read to its end as mean_distance and table read it
matrix(cs) ==
    LET pairs == Product2(cs.reflexes)
        dists == [k \in DOMAIN pairs |-> distance(pairs[k][1], pairs[k][2])]
    IN  chunk(dists, n_reflexes(cs))

RECURSIVE Gcd(_, _)
Gcd(a, b) == IF b = 0 THEN a ELSE Gcd(b, a % b)

\* the quotient a / b of two naturals, b > 0, in lowest terms
Quotient(a, b) == [num |-> a \div Gcd(a, b), den |-> b \div Gcd(a, b)]

QuotientBySquare(a, b) == Quotient(a, b * b)

\* sum(flat) / self.n_reflexes
TrueDiv(a, b) == Quotient(a, b)

\* CognateSet.mean_distance
mean_distance(cs) ==
    LET m == matrix(cs)
    IN  IF m.err # NoError THEN [err |-> m.err, value |-> NoMean]
        ELSE IF n_reflexes(cs) = 0
             THEN [err |-> "ZeroDivisionError", value |-> NoMean]
        ELSE [err |-> NoError,
              value |-> TrueDiv(SumSeq(Concat(m.value)), n_reflexes(cs))]

\* CognateSet.table: the rows [r] + row handed to tabulate, with the
\* reflexes as headers
table(cs) ==
    LET m == matrix(cs)
    IN  IF m.err # NoError THEN [err |-> m.err, value |-> <<>>]
        ELSE [err |-> NoError,
              value |-> [i \in 1..Min2(Len(cs.reflexes), Len(m.value)) |->
                            <<cs.reflexes[i]>> \o m.value[i]]]

(***************************************************************************)
(* load_reflex_data and run                                                *)
(***************************************************************************)
ProtoFormOf(row) == row.ProtoForm

\* line 105: the rows of the group that have a glottocode
FilterGroupKeepAll(group, pl) == group

FilterGroup(group, pl) ==
    IF pl THEN group
    ELSE SelectSeq(group, LAMBDA row : row.GlottoCode # "")

\* lines 103-112 from group g on; group[0] of an empty group raises
RECURSIVE LoadFrom(_, _, _, _, _)
LoadFrom(gs, g, pl, aff, acc) ==
    IF g > Len(gs) THEN [err |-> NoError, value |-> acc]
    ELSE LET group == FilterGroup(gs[g], pl)
         IN  IF group = <<>> THEN [err |-> "IndexError", value |-> <<>>]
             ELSE LoadFrom(gs, g + 1, pl, aff,
                      Append(acc,
                          CognateSetInit(group[1].ProtoForm,
                              [i \in DOMAIN group |-> group[i].Reflex],
                              [i \in DOMAIN group |-> group[i].GlottoCode],
                              None, aff)))

load_reflex_data(rs, pl, aff) ==
    LoadFrom(groupby(rs, [row \in {rs[i] : i \in DOMAIN rs} |-> ProtoFormOf(row)]),
             1, pl, aff, <<>>)

\* str.split(sep) for a one-character separator
RECURSIVE SplitFrom(_, _, _, _, _)
SplitFrom(s, sep, i, cur, acc) ==
    IF i > Len(s) THEN Append(acc, cur)
    ELSE IF s[i] = sep THEN SplitFrom(s, sep, i + 1, <<>>, Append(acc, cur))
    ELSE SplitFrom(s, sep, i + 1, Append(cur, s[i]), acc)

SplitWhole(s, sep) == <<s>>

Split(s, sep) == SplitFrom(s, sep, 1, <<>>, <<>>)

InList(x, xs) == \E i \in DOMAIN xs : xs[i] = x

\* what print writes: one record per call
CountLine(n) ==
    [kind |-> "count", protoform |-> <<>>, gloss |-> None, n |-> n,
     headers |-> <<>>, table |-> <<>>]

\* "Cognate set: {}".format(cs), with CognateSet.__str__
SummaryLine(cs) ==
    [kind |-> "summary", protoform |-> cs.protoform, gloss |-> cs.gloss,
     n |-> n_reflexes(cs), headers |-> <<>>, table |-> <<>>]

TableLine(cs, tb) ==
    [kind |-> "table", protoform |-> cs.protoform, gloss |-> cs.gloss,
     n |-> n_reflexes(cs), headers |-> cs.reflexes, table |-> tb]

\* lines 140-143 from set i on
RECURSIVE RunLoop(_, _, _, _)
RunLoop(css, protoforms, i, acc) ==
    IF i > Len(css) THEN [err |-> NoError, out |-> acc]
    ELSE IF InList(css[i].protoform, protoforms)
         THEN LET tb == table(css[i])
              IN  IF tb.err # NoError
                  THEN [err |-> tb.err, out |-> Append(acc, SummaryLine(css[i]))]
                  ELSE RunLoop(css, protoforms, i + 1,
                           acc \o <<SummaryLine(css[i]), TableLine(css[i], tb.value)>>)
    ELSE RunLoop(css, protoforms, i + 1, acc)

\* args.sets: None when the option is absent, else the string given
NoSets == [given |-> FALSE, value |-> <<>>]
SetsArg(s) == [given |-> TRUE, value |-> s]

\* `if args.sets:` is false for a missing option and for an empty string
Truthy(a) == a.given /\ a.value # <<>>

\* lines 137-143
report(css, setsArg) ==
    IF Truthy(setsArg)
    THEN RunLoop(css, Split(setsArg.value, ","), 1, <<CountLine(Len(css))>>)
    ELSE [err |-> NoError, out |-> <<CountLine(Len(css))>>]

(***************************************************************************)
(* The affix stripper called on its own, and called again on its result    *)
(***************************************************************************)
InitStrip ==
    /\ lexeme \in SeqsUpTo(Alphabet, MaxLen)
    /\ return_all = FALSE /\ root = NoRoot /\ passes = 0
    /\ pc = "start" /\ err = NoError
    /\ seq = <<>> /\ groups = <<>>
    /\ rows = <<>> /\ protolangs = FALSE /\ affixes = FALSE
    /\ cognatesets = <<>>
    /\ sel = 0 /\ mat = <<>> /\ mean = NoMean
    /\ sets = NoSets /\ out = <<>>

\* rm_affixes(lexeme, return_all)
RmAffixes(ra) ==
    /\ pc = "start"
    /\ LET r == rm_affixes(lexeme, ra)
       IN  /\ err' = r.err
           /\ root' = r.value
           /\ pc' = IF r.err = NoError THEN "returned" ELSE "raised"
    /\ return_all' = ra
    /\ passes' = passes + 1
    /\ UNCHANGED <<lexeme, groupVars, loadVars, setVars, runVars>>

\* the caller passes the root it was given to rm_affixes once more
Restrip ==
    /\ pc = "returned" /\ passes = 1
    /\ lexeme' = root
    /\ pc' = "start"
    /\ UNCHANGED <<err, return_all, root, passes,
                   groupVars, loadVars, setVars, runVars>>

NextStrip ==
    \/ \E ra \in BOOLEAN : RmAffixes(ra)
    \/ Restrip

SpecStrip == InitStrip /\ [][NextStrip]_vars

\* a string in which the pattern matches nowhere
NoMarker(s) == FindAllFrom(s, 1) = <<>>

\* C7: a second pass over the root returns the root again
C7_Idempotent ==
    (pc = "returned" /\ passes = 2) => root = lexeme

\* C8: with return_all the stripper returns (root, removed) without
\* raising, and (s, []) for a string s without markers
C8_ReturnAll ==
    (pc # "start" /\ return_all) =>
        /\ err = NoError
        /\ pc = "returned"
        /\ NoMarker(lexeme) => root = <<lexeme, <<>>>>

(***************************************************************************)
(* groupby called on its own                                               *)
(***************************************************************************)
ItemKeys == {"x", "y", "z"}
Items == [k : ItemKeys, v : {0, 1}]

KeyOf(item) == item.k

InitGroup ==
    /\ seq \in SeqsUpTo(Items, MaxItems)
    /\ groups = <<>>
    /\ pc = "start" /\ err = NoError
    /\ lexeme = <<>> /\ return_all = FALSE /\ root = NoRoot /\ passes = 0
    /\ rows = <<>> /\ protolangs = FALSE /\ affixes = FALSE
    /\ cognatesets = <<>>
    /\ sel = 0 /\ mat = <<>> /\ mean = NoMean
    /\ sets = NoSets /\ out = <<>>

\* groupby(seq, access_fn)
GroupBy ==
    /\ pc = "start"
    /\ groups' = groupby(seq, [it \in Items |-> KeyOf(it)])
    /\ pc' = "returned"
    /\ UNCHANGED <<err, seq, stripVars, loadVars, setVars, runVars>>

NextGroup == GroupBy

SpecGroup == InitGroup /\ [][NextGroup]_vars

\* index in s of the first item with key k
FirstIndex(s, k) == CHOOSE i \in DOMAIN s : KeyOf(s[i]) = k /\ \A j \in 1..(i - 1) : KeyOf(s[j]) # k

\* C6: groupby returns a stable partition: the groups come in the order
\* their keys are first met, a group holds the items of one key in their
\* original order, no two groups share a key, and the sizes sum to len(seq)
C6_StablePartition ==
    pc = "returned" =>
        /\ \A g \in DOMAIN groups :
              /\ groups[g] # <<>>
              /\ groups[g] = SelectSeq(seq, LAMBDA it : KeyOf(it) = KeyOf(groups[g][1]))
        /\ \A g, h \in DOMAIN groups :
              g < h => FirstIndex(seq, KeyOf(groups[g][1])) < FirstIndex(seq, KeyOf(groups[h][1]))
        /\ SumSeq([g \in DOMAIN groups |-> Len(groups[g])]) = Len(seq)

C6_Witness ==
    /\ pc = "returned"
    /\ Len(groups) = 2
    /\ Len(groups[1]) = 2
    /\ groups[1][1] # groups[1][2]
    /\ KeyOf(seq[2]) # KeyOf(seq[1])
    /\ KeyOf(seq[3]) = KeyOf(seq[1])

(***************************************************************************)
(* A CognateSet built by its constructor, then asked for its matrix and    *)
(* its mean distance                                                       *)
(***************************************************************************)
P == <<"P">>
Q == <<"Q">>

StrA == <<"a">>
StrAB == <<"a", "b">>
StrABC == <<"a", "b", "c">>
StrABD == <<"a", "b", "d">>
StrBA == <<"b", "-", "a">>

ReflexPool == {StrA, StrAB, StrABC, StrABD, StrBA}

InitSet ==
    /\ pc = "start" /\ err = NoError
    /\ cognatesets = <<>>
    /\ rows = <<>> /\ protolangs = FALSE /\ affixes = FALSE
    /\ sel = 0 /\ mat = <<>> /\ mean = NoMean
    /\ lexeme = <<>> /\ return_all = FALSE /\ root = NoRoot /\ passes = 0
    /\ seq = <<>> /\ groups = <<>>
    /\ sets = NoSets /\ out = <<>>

\* CognateSet(protoform, reflexes, affixes=aff)
Construct(reflexes, aff) ==
    /\ pc = "start"
    /\ cognatesets' = <<CognateSetInit(P, reflexes, <<>>, None, aff)>>
    /\ affixes' = aff
    /\ pc' = "built"
    /\ UNCHANGED <<err, rows, protolangs, stripVars, groupVars, setVars, runVars>>

\* list(cs.matrix()) for the k-th set
Matrix(k) ==
    /\ pc \in {"built", "loaded"}
    /\ k \in DOMAIN cognatesets
    /\ LET m == matrix(cognatesets[k])
       IN  /\ err' = m.err
           /\ mat' = m.value
           /\ pc' = IF m.err = NoError THEN "matrix" ELSE "matrix_raised"
    /\ sel' = k
    /\ UNCHANGED <<mean, stripVars, groupVars, loadVars, runVars>>

\* cs.mean_distance for the k-th set
MeanDistance(k) ==
    /\ pc \in {"built", "loaded", "matrix"}
    /\ k \in DOMAIN cognatesets
    /\ pc = "matrix" => k = sel
    /\ LET r == mean_distance(cognatesets[k])
       IN  /\ err' = r.err
           /\ mean' = r.value
           /\ pc' = IF r.err = NoError THEN "mean" ELSE "mean_raised"
    /\ sel' = k
    /\ UNCHANGED <<mat, stripVars, groupVars, loadVars, runVars>>

NextSet ==
    \/ \E rs \in SeqsUpTo(ReflexPool, MaxReflexes), aff \in BOOLEAN : Construct(rs, aff)
    \/ \E k \in 1..1 : Matrix(k)
    \/ \E k \in 1..1 : MeanDistance(k)

SpecSet == InitSet /\ [][NextSet]_vars

\* the sum of measure(reflexes[i], reflexes[j]) over all index pairs (i, j)
RECURSIVE PairSumFrom(_, _, _)
PairSumFrom(rs, i, j) ==
    IF i > Len(rs) THEN 0
    ELSE IF j > Len(rs) THEN PairSumFrom(rs, i + 1, 1)
    ELSE distance(rs[i], rs[j]) + PairSumFrom(rs, i, j + 1)

PairSum(rs) == PairSumFrom(rs, 1, 1)

C4_AbcAbdHalf ==
    (pc = "mean" /\ mat # <<>> /\ cognatesets[sel].reflexes = <<StrABC, StrABD>>) =>
        /\ mat = <<<<0, 1>>, <<1, 0>>>>
        /\ mean = [num |-> 1, den |-> 2]

\* C4 as amended: for the reflexes ["abc","abd"] the matrix is [[0,1],[1,0]]
\* and mean_distance is 1.0
C4_AbcAbdOne ==
    (pc = "mean" /\ mat # <<>> /\ cognatesets[sel].reflexes = <<StrABC, StrABD>>) =>
        /\ mat = <<<<0, 1>>, <<1, 0>>>>
        /\ mean = [num |-> 1, den |-> 1]

C4_Witness ==
    /\ pc = "mean"
    /\ mat = <<<<0, 1>>, <<1, 0>>>>
    /\ cognatesets[sel].reflexes = <<StrABC, StrABD>>

\* C5 as stated: mean_distance on a set without reflexes returns nothing
\* and fails with a ZeroDivisionError
C5_EmptyMeanDivideByZero ==
    (pc \in {"mean", "mean_raised"} /\ n_reflexes(cognatesets[sel]) = 0) =>
        /\ pc = "mean_raised"
        /\ mean = NoMean
        /\ err = "ZeroDivisionError"

\* C5 as amended: mean_distance on a set without reflexes returns nothing,
\* fails with the ValueError of chunk's zero step, and leaves the set's
\* fields as they were
C5_EmptyMeanRaises ==
    [][(pc # pc' /\ pc' \in {"mean", "mean_raised"}
            /\ n_reflexes(cognatesets'[sel']) = 0) =>
          /\ pc' = "mean_raised"
          /\ mean' = NoMean
          /\ err' = "ValueError"
          /\ cognatesets' = cognatesets]_vars

C5_Witness ==
    /\ pc = "mean_raised"
    /\ err = "ValueError"
    /\ cognatesets[sel].reflexes = <<>>
    /\ mean = NoMean

(***************************************************************************)
(* The loader and the report driver on a sheet of rows                     *)
(***************************************************************************)
Tulak == <<"t", "u", "l", "a", "k">>
TulakEn == <<"t", "u", "l", "a", "k", "-", "e", "n">>
ManTulak == <<"m", "a", "N", "-", "t", "u", "l", "a", "k">>
TUmUlak == <<"t", "<", "u", "m", ">", "u", "l", "a", "k">>

Row(p, r, c) == [ProtoForm |-> p, Reflex |-> r, GlottoCode |-> c]

\* the cells (Reflex, GlottoCode) a row of the sheet may hold
Cells == {<<Tulak, "lang1">>, <<TulakEn, "lang2">>, <<ManTulak, "">>, <<TUmUlak, "lang3">>}

RowPool == {Row(p, c[1], c[2]) : p \in {P, Q}, c \in Cells}

\* the values of --sets: absent, or a string
SetsPool == {NoSets} \cup {SetsArg(s) : s \in {<<>>, <<"P">>, <<"P", ",", "Q">>, <<"R">>, <<"R", ",", "Q">>}}

Init ==
    /\ rows \in SeqsUpTo(RowPool, MaxRows)
    /\ pc = "start" /\ err = NoError
    /\ protolangs = FALSE /\ affixes = FALSE
    /\ cognatesets = <<>>
    /\ sel = 0 /\ mat = <<>> /\ mean = NoMean
    /\ sets = NoSets /\ out = <<>>
    /\ lexeme = <<>> /\ return_all = FALSE /\ root = NoRoot /\ passes = 0
    /\ seq = <<>> /\ groups = <<>>

\* load_reflex_data(fname, protolangs=pl, affixes=aff) on the sheet's rows
LoadReflexData(pl, aff) ==
    /\ pc = "start"
    /\ LET r == load_reflex_data(rows, pl, aff)
       IN  /\ err' = r.err
           /\ cognatesets' = r.value
           /\ pc' = IF r.err = NoError THEN "loaded" ELSE "failed"
    /\ protolangs' = pl
    /\ affixes' = aff
    /\ UNCHANGED <<rows, stripVars, groupVars, setVars, runVars>>

\* run() with --sets setsArg, and --rm_affixes given or not; the option
\* stores False, so the loader's affixes is True unless it is given
Run(setsArg, flagGiven) ==
    /\ pc = "start"
    /\ LET ld == load_reflex_data(rows, FALSE, ~flagGiven)
           rp == report(ld.value, setsArg)
       IN  IF ld.err # NoError
           THEN /\ err' = ld.err
                /\ cognatesets' = <<>>
                /\ out' = <<>>
                /\ pc' = "run_raised"
           ELSE /\ err' = rp.err
                /\ cognatesets' = ld.value
                /\ out' = rp.out
                /\ pc' = IF rp.err = NoError THEN "ran" ELSE "run_raised"
    /\ sets' = setsArg
    /\ protolangs' = FALSE
    /\ affixes' = ~flagGiven
    /\ UNCHANGED <<rows, stripVars, groupVars, setVars>>

Next ==
    \/ \E pl \in BOOLEAN, aff \in BOOLEAN : LoadReflexData(pl, aff)
    \/ \E s \in SetsPool, fg \in BOOLEAN : Run(s, fg)
    \/ \E k \in 1..MaxRows : Matrix(k)
    \/ \E k \in 1..MaxRows : MeanDistance(k)

Spec == Init /\ [][Next]_vars

C1Rows == <<Row(P, Tulak, "lang1"), Row(P, TulakEn, "lang2"), Row(P, ManTulak, "")>>

\* C1: the rows (P,tulak,lang1), (P,tulak-en,lang2), (P,maN-tulak,"") load,
\* codeless rows excluded and affixes stripped, to one set for P with the
\* reflexes [tulak, tulak] and mean_distance 0
C1_EndToEnd ==
    (rows = C1Rows /\ ~protolangs /\ ~affixes /\ pc \in {"loaded", "failed", "mean", "mean_raised"}) =>
        /\ pc \in {"loaded", "mean"}
        /\ Len(cognatesets) = 1
        /\ cognatesets[1].protoform = P
        /\ cognatesets[1].reflexes = <<Tulak, Tulak>>
        /\ pc = "mean" => mean.num = 0

\* the protoforms all of whose rows lack a glottocode
Codeless(p) ==
    /\ \E i \in DOMAIN rows : rows[i].ProtoForm = p
    /\ \A i \in DOMAIN rows : rows[i].ProtoForm = p => rows[i].GlottoCode = ""

HasCoded(p) ==
    \E i \in DOMAIN rows : rows[i].ProtoForm = p /\ rows[i].GlottoCode # ""

\* C2: under the default policy a group whose rows all lack a glottocode
\* is skipped: the load ends without error, emits no set for that
\* protoform and still returns the sets of the other protoforms
C2_CodelessGroupSkipped ==
    (pc \in {"loaded", "failed"} /\ ~protolangs /\ \E p \in {P, Q} : Codeless(p)) =>
        /\ pc = "loaded"
        /\ err = NoError
        /\ \A p \in {P, Q} :
              /\ Codeless(p) => ~ \E k \in DOMAIN cognatesets : cognatesets[k].protoform = p
              /\ HasCoded(p) => \E k \in DOMAIN cognatesets : cognatesets[k].protoform = p

\* the rows of protoform p the policy keeps, in input order
Kept(p) ==
    SelectSeq(rows, LAMBDA row : row.ProtoForm = p /\ (protolangs \/ row.GlottoCode # ""))

Emitted == pc \in {"loaded", "matrix", "mean", "ran"}

\* C10: every emitted set has as many reflexes as glottocodes, index i of
\* both from the i-th kept row of its protoform in input order; under the
\* default policy no glottocode is empty, and with protolangs the codeless
\* rows are kept with an empty glottocode at their index
C10_ParallelSequences ==
    Emitted =>
        \A k \in DOMAIN cognatesets :
            LET cs == cognatesets[k]
                kept == Kept(cs.protoform)
            IN  /\ Len(cs.reflexes) = Len(cs.glottocodes)
                /\ Len(cs.reflexes) = Len(kept)
                /\ \A i \in DOMAIN kept :
                      /\ cs.glottocodes[i] = kept[i].GlottoCode
                      /\ cs.reflexes[i] = IF affixes THEN kept[i].Reflex
                                          ELSE SubFrom(kept[i].Reflex, 1)
                      /\ ~protolangs => cs.glottocodes[i] # ""
                /\ protolangs =>
                      Len(kept) = Cardinality({i \in DOMAIN rows : rows[i].ProtoForm = cs.protoform})

C10_Witness ==
    /\ pc = "loaded"
    /\ protolangs
    /\ \E k \in DOMAIN cognatesets :
          /\ Len(cognatesets[k].reflexes) = 2
          /\ cognatesets[k].glottocodes[1] = ""
          /\ cognatesets[k].glottocodes[2] # ""

\* the sets the selection names, in loaded order
Selected(css, names) == SelectSeq(css, LAMBDA cs : cs.protoform \in names)

SelectorNames == {<<"P">>, <<"Q">>, <<"R">>}

\* the names a --sets string lists between its commas
Named(s) == {nm \in SelectorNames :
                \E i, j \in 0..(Len(s) + 1) :
                    /\ i < j
                    /\ i = 0 \/ s[i] = ","
                    /\ j = Len(s) + 1 \/ s[j] = ","
                    /\ SubSeq(s, i + 1, j - 1) = nm}

\* out is the count line and then, for each set of css in order, its
\* summary followed by its table
IsReportOf(css) ==
    /\ Len(out) = 1 + 2 * Len(css)
    /\ out[1].kind = "count"
    /\ out[1].n = Len(cognatesets)
    /\ \A k \in DOMAIN css :
          LET s == out[2 * k]
              tb == out[2 * k + 1]
              rs == css[k].reflexes
          IN  /\ s.kind = "summary"
              /\ s.protoform = css[k].protoform
              /\ s.n = Len(rs)
              /\ tb.kind = "table"
              /\ tb.headers = rs
              /\ Len(tb.table) = Len(rs)
              /\ \A i \in DOMAIN rs :
                    /\ tb.table[i][1] = rs[i]
                    /\ \A j \in DOMAIN rs : tb.table[i][j + 1] = distance(rs[i], rs[j])

\* C9 as stated: the driver prints the count, then summary and table for
\* every set when no selection is given and for the selected sets when one
\* is; a selector that matches no set prints nothing and is no error
C9_ReportAllOrSelected ==
    pc = "ran" =>
        /\ err = NoError
        /\ IF ~sets.given
           THEN IsReportOf(cognatesets)
           ELSE IsReportOf(Selected(cognatesets, Named(sets.value)))

\* C9 as amended: after a load that succeeds the driver prints the count,
\* then summary and table for the selected sets when a selection is given,
\* and nothing more when none is given; a selector that matches no set
\* prints nothing and is no error
C9_ReportSelectedOnly ==
    pc = "ran" =>
        /\ err = NoError
        /\ IF ~sets.given
           THEN IsReportOf(<<>>)
           ELSE IsReportOf(Selected(cognatesets, Named(sets.value)))

C9_Witness ==
    /\ pc = "ran"
    /\ sets = SetsArg(<<"R", ",", "Q">>)
    /\ Len(cognatesets) = 2
    /\ Len(out) = 3
    /\ out[2].protoform = Q

====
